---------------------------- MODULE Spec2Model ----------------------------
(***************************************************************************)
(* A model of nanocompore's SampComp pipeline (src/nanocompore/SampComp.py) *)
(*                                                                         *)
(* SampComp.__call__ (the Supervisor) starts one Dispatcher process        *)
(* (__list_refid), nthreads-2 Worker processes (__process_references) and  *)
(* one Writer process (__write_output).  They talk through two bounded     *)
(* queues (in_q, out_q) and one unbounded error queue (error_q).           *)
(*                                                                         *)
(* Two specifications are defined over the same variables:                 *)
(*   Spec      the process pipeline, one action per blocking operation of  *)
(*             each process (the code between two queue operations is      *)
(*             process-local and is folded into the step that follows it); *)
(*   FoldSpec  one Worker task in detail: __make_ref_pos_list and the      *)
(*             folding of the reads' data rows into the position table.    *)
(***************************************************************************)
EXTENDS Integers, Sequences, FiniteSets, TLC

\* ------------------------------------------------------------------ bounds

\* nthreads given to the constructor (>= 3, checked at SampComp.py:134).
NThreads == 4
\* Largest number of references the whitelist yields.
NRefs == 2
\* Capacity of in_q and of out_q; mp.Queue(maxsize = 100) in the source,
\* scaled down so that a full queue is reached with NRefs references.
QueueMaxsize == 2
\* Longest reference sequence a Worker makes a table for.
MaxRefLen == 7
\* Largest number of reads, and of data rows, folded into one table.
MaxReads == 2
MaxRows == 2

\* ------------------------------------------------------- program constants

\* self.__nthreads = nthreads - 2 : the number of Worker processes.
self_nthreads == NThreads - 2

Workers == 1..self_nthreads

\* The poison pill put on in_q and out_q.  A message of in_q or out_q is a
\* record [ref_id, kind]; ref_ids are the numbers 1, 2, ...
None == [ref_id |-> 0, kind |-> "None"]

\* The null marker the Writer puts on error_q, and the tracebacks.
ErrNone == "None"
TbDispatcher == "traceback:__list_refid"
TbWorker == "traceback:__process_references"
TbWriter == "traceback:__write_output"

\* A message put on error_q, as kept in errLog: who put it and what.
LogEntry(proc, pid, msg) == [proc |-> proc, pid |-> pid, msg |-> msg]

\* The columns a read's column line must hold.
RequiredFields == {"ref_pos", "ref_kmer", "median", "dwell_time"}
\* The columns that switch the kmers_stats accounting on.
KmersStatsFields == {"NNNNN_dwell_time", "mismatch_dwell_time"}

\* Mutant of all_values_in: one of the values is enough.
any_value_in(required, col_names) == required \cap col_names # {}

\* all_values_in(required, col_names)
all_values_in(required, col_names) == required \subseteq col_names

\* ------------------------------------------------- the whitelist's content

\* What the whitelist and the eventalign files hold for one reference: the
\* index entry of its read (read_id, ref_id) and the header and column line
\* found in the data file at the read's byte offset.  A work item
\* (ref_id, ref_dict) is modelled as [ref_id, kind], kind naming which of
\* these contents its ref_dict points to.
Kinds == {"ok", "bad_header", "no_column"}

WorkItem(ref_id, kind) == [ref_id |-> ref_id, kind |-> kind]

\* (ref_id, ref_pos_list): the table a Worker built for ref_id.
Result(ref_id) == [ref_id |-> ref_id, kind |-> "table"]

ReadOf(ref_id, kind) ==
    [ read_id     |-> 10 + ref_id,
      ref_id      |-> ref_id,
      hdr_read_id |-> IF kind = "bad_header" THEN 99 ELSE 10 + ref_id,
      hdr_ref_id  |-> ref_id,
      col_names   |-> IF kind = "no_column"
                      THEN RequiredFields \ {"dwell_time"}
                      ELSE RequiredFields ]

\* Line 290: the header of the data file names the read of the index.
HeaderMatches(read) ==
    read.hdr_read_id = read.read_id /\ read.hdr_ref_id = read.ref_id

\* Line 296: the column line holds every required field.
HasRequiredFields(read) == all_values_in(RequiredFields, read.col_names)

\* Lines 288-297: whether folding this read raises NanocomporeError.
ReadRaises(read) == ~HeaderMatches(read) \/ ~HasRequiredFields(read)

VARIABLES
    in_q,         \* mp.Queue(maxsize) of work items and None
    out_q,        \* mp.Queue(maxsize) of results and None
    error_q,      \* mp.Queue() of tracebacks and the Writer's None
    supPc,        \* Supervisor: "new", "rejected" (no object), "init",
                  \*             "monitor", "join", "returned"
    supOutcome,   \* "none", "success" (returns SampCompDB), "failure" (raises)
    supRaised,    \* the payloads of the NanocomporeErrors __call__ has raised
    dispPc,       \* Dispatcher: "iter","put","pills","except","report","done"
    dispCur,      \* the content of the work item the Dispatcher is putting
    dispI,        \* number of work items the Dispatcher has put on in_q
    dispK,        \* number of None the Dispatcher has put on in_q
    wPc,          \* Worker w: "start","get","put","pill","except","done","died"
    wCur,         \* the ref_id Worker w holds (0: none)
    wPills,       \* number of None Worker w has put on out_q
    wFp,          \* Worker w's fp_dict: "unbound", "open", "closed"
    wHandles,     \* Worker w's file handles, in the order they are opened:
                  \* "none", "open", "closed"
    wErr,         \* why Worker w raised: "none", "open", "consistency"
    wrPc,         \* Writer: "open","pbar","drain","index","signal","done","died"
    wrPills,      \* number of None the Writer has taken from out_q
    ref_id_list,  \* the Writer's ref_id_list
    db,           \* the shelve: [tables: set of ref_ids, index, metadata]
    errLog,       \* every message ever put on error_q, with the process that put it
    ps_list,      \* the targets of the processes the Supervisor started
    args,         \* the arguments SampComp.__init__ is called with
    sampcomp,     \* the SampComp object: its private fields, or NoObject
    \* one Worker task in detail (FoldSpec)
    fPc,          \* "idle", "reads", "rows", "raised", "loaded", "put"
    ref_len,      \* len(ref_fasta) of the task's reference
    ref_pos_list, \* the position table of the task
    fSample,      \* (cond_lab, sample_lab) of the read being folded
    kmers_stats,  \* kmers_stats of the read being folded (line 299)
    lacks_stats_col, \* whether the read's column line lacks NNNNN_dwell_time
                  \* or mismatch_dwell_time
    prev_pos,     \* prev_pos of the read being folded
    nReads,       \* number of reads started
    nRows,        \* number of data rows folded
    kmer,         \* the data row parsed last (line 305), NoKmer before any
    folded,       \* the rows folded into the table so far, by position and
                  \* sample, each with its read
    random_state, \* the Worker's random_state (line 335)
    txComp,       \* what txCompare was called with for this table
    \* SimReads (src/nanocompore/SimReads.py)
    simPc,        \* "idle", "open", "ref", "reads", "done", "raised"
    ref_list,     \* the ref_list argument, then the references simulated
    nreads_per_ref, \* the nreads_per_ref argument
    ref_num,      \* index of the reference in ref_list (enumerate)
    ref_seq,      \* ref_seq of the reference being written
    read_num,     \* number of the next read of the reference
    byte_offset,  \* byte_offset (line 122)
    data_fp,      \* the content of the data file <outprefix>.tsv
    idx_fp,       \* the entries of the index file <outprefix>.tsv.idx
    gvd           \* a call of get_valid_distr_data: its arguments and locals

pipeVars == << in_q, out_q, error_q, supPc, supOutcome, supRaised,
               dispPc, dispCur, dispI, dispK, wPc, wCur, wPills, wFp, wHandles,
               wErr,
               wrPc, wrPills, ref_id_list, db, errLog, ps_list, args, sampcomp >>

foldVars == << fPc, ref_len, ref_pos_list, fSample, kmers_stats,
               lacks_stats_col, prev_pos,
               nReads, nRows, kmer, folded, random_state, txComp >>

loopVars == << simPc, ref_list, nreads_per_ref, ref_num, ref_seq, read_num,
               byte_offset, data_fp, idx_fp >>

simVars == << loopVars, gvd >>

vars == << pipeVars, foldVars, simVars >>

ctorVars == << args, sampcomp >>
supVars  == << supPc, supOutcome, supRaised, ps_list >>
dispVars == << dispPc, dispCur, dispI, dispK >>
wVars    == << wPc, wCur, wPills, wFp, wHandles, wErr >>
wrVars   == << wrPc, wrPills, ref_id_list, db >>

\* ------------------------------------------------------------------ queues

\* Mutant of CanPut: put never blocks.
CanPutAlways(q) == TRUE

\* mp.Queue.put blocks while the queue holds maxsize messages.
CanPut(q) == Len(q) < QueueMaxsize

\* Mutant of Get: the message stays on the queue.
GetKeeps(q) == q

\* mp.Queue.get removes the message it returns.
Get(q) == Tail(q)

EmptyDb == [tables |-> {}, index |-> << >>, has_index |-> FALSE, metadata |-> FALSE]

\* ------------------------------------------------------------- constructor

\* The files access_file finds readable.
AccessibleFiles ==
    {"a1.tsv", "b1.tsv", "c1.tsv", "samples.yaml", "ref.fa", "ann.bed"}

\* access_file(fn)
access_file(fn) == fn \in AccessibleFiles

\* eventalign_fn_dict maps cond_lab to a mapping of rep_lab to a file name.
\* It is kept in insertion order as a sequence of [cond_lab, samples],
\* samples a sequence of [rep_lab, fn].  Labels are strings.
Sample(lab, fn) == [rep_lab |-> lab, fn |-> fn]
Cond(lab, samples) == [cond_lab |-> lab, samples |-> samples]

DictOk ==
    << Cond("A", << Sample("R1", "a1.tsv") >>),
       Cond("B", << Sample("R2", "b1.tsv") >>) >>
DictSameLabels ==
    << Cond("A", << Sample("R1", "a1.tsv") >>),
       Cond("B", << Sample("R1", "b1.tsv") >>) >>
DictOneCond ==
    << Cond("A", << Sample("R1", "a1.tsv"), Sample("R2", "b1.tsv") >>) >>
DictThreeConds ==
    << Cond("A", << Sample("R1", "a1.tsv") >>),
       Cond("B", << Sample("R2", "b1.tsv") >>),
       Cond("C", << Sample("R3", "c1.tsv") >>) >>
DictNoAccess ==
    << Cond("A", << Sample("R1", "a1.tsv") >>),
       Cond("B", << Sample("R2", "missing.tsv") >>) >>
DictSameFile ==
    << Cond("A", << Sample("R1", "a1.tsv") >>),
       Cond("B", << Sample("R2", "a1.tsv") >>) >>
DictPrefixed ==
    << Cond("A", << Sample("B_R", "a1.tsv"), Sample("R", "b1.tsv") >>),
       Cond("A_B", << Sample("R", "c1.tsv") >>) >>
Dicts ==
    {DictOk, DictSameLabels, DictOneCond, DictThreeConds, DictNoAccess, DictSameFile,
     DictPrefixed}

\* The eventalign_fn_dict argument: a dict, or (lines 116-121) the name of
\* a YAML file that holds one.
DictArg(d) == [type |-> "dict", path |-> "", dict |-> d]
YamlArg(fn) == [type |-> "str", path |-> fn, dict |-> << >>]
EventalignArgs ==
    {DictArg(d) : d \in Dicts} \cup {YamlArg(fn) : fn \in {"samples.yaml", "missing.yaml"}}

\* Line 121: yaml.load of the file.
YamlContent(fn) == DictOk

\* Lines 116-121: the dict the constructor goes on with.
LoadDict(a) == IF a.type = "str" THEN YamlContent(a.path) ELSE a.dict
YamlRaises(a) == a.type = "str" /\ ~access_file(a.path)

\* The (condition, replicate) entries of a dict, and the file of an entry.
Entries(d) == UNION {{<< c, i >> : i \in DOMAIN d[c].samples} : c \in DOMAIN d}
FnAt(d, e) == d[e[1]].samples[e[2]].fn
LabAt(d, e) == d[e[1]].samples[e[2]].rep_lab

\* Lines 414-415 and 425-430: what makes __check_eventalign_fn_dict raise.
CheckDictRaises(d) ==
    \/ Len(d) # 2
    \/ \E e \in Entries(d) : ~access_file(FnAt(d, e))
    \/ \E e1, e2 \in Entries(d) : e1 # e2 /\ FnAt(d, e1) = FnAt(d, e2)

\* Lines 431-432.
duplicated_lab(d) ==
    \E e1, e2 \in Entries(d) : e1 # e2 /\ LabAt(d, e1) = LabAt(d, e2)

\* Line 445: "{}_{}".format(cond_lab, rep_lab).
format(cond_lab, rep_lab) == cond_lab \o "_" \o rep_lab

\* Lines 441-446: every label prefixed with its condition.
d_clean(d) ==
    [c \in DOMAIN d |->
        Cond(d[c].cond_lab,
             [i \in DOMAIN d[c].samples |->
                 [ rep_lab |-> format(d[c].cond_lab, d[c].samples[i].rep_lab),
                   fn |-> d[c].samples[i].fn ]])]

\* Lines 411-446: the dict __check_eventalign_fn_dict returns.
check_eventalign_fn_dict(d) == IF duplicated_lab(d) THEN d_clean(d) ELSE d

\* The comparison_methods argument: None, a list of names, or a string of
\* names separated by commas (kept as its characters' tokens).
MethodTokens ==
    {"MW", "mw", "MANN_WHITNEY", "KS", "ks", "KOLMOGOROV_SMIRNOV",
     "TT", "T_TEST", "GMM", "gmm", "GAUSSIAN_MIXTURE_MODEL", "XX"}
MethodList(seq) == [type |-> "list", value |-> seq]
MethodStr(seq) == [type |-> "str", value |-> seq]
MethodNone == [type |-> "None", value |-> << >>]
MethodArgs ==
    { MethodNone, MethodList(<< >>), MethodList(<< "GMM", "KS" >>),
      MethodList(<< "mw", "T_TEST" >>), MethodList(<< "KS", "XX" >>),
      MethodStr(<< "gmm", ",", "KOLMOGOROV_SMIRNOV" >>),
      MethodStr(<< "XX" >>) }

\* Line 140: comparison_methods.split(",").
Split(str) == SelectSeq(str, LAMBDA t : t # ",")

\* Line 142: method.upper().
Upper(t) ==
    CASE t = "mw" -> "MW"
      [] t = "ks" -> "KS"
      [] t = "gmm" -> "GMM"
      [] OTHER -> t

\* Lines 143-152: the short name of a method, "raise" for an unknown one.
ShortName(method) ==
    CASE method \in {"MANN_WHITNEY", "MW"} -> "MW"
      [] method \in {"KOLMOGOROV_SMIRNOV", "KS"} -> "KS"
      [] method \in {"T_TEST", "TT"} -> "TT"
      [] method \in {"GAUSSIAN_MIXTURE_MODEL", "GMM"} -> "GMM"
      [] OTHER -> "raise"

\* Line 138: if comparison_methods.
Truthy(cm) == cm.type # "None" /\ cm.value # << >>

\* Lines 139-140.
MethodsOf(cm) == IF cm.type = "str" THEN Split(cm.value) ELSE cm.value

\* Lines 138-152: the saved comparison_methods, and whether parsing raises.
ParsedMethods(cm) ==
    IF Truthy(cm)
    THEN [i \in DOMAIN MethodsOf(cm) |-> ShortName(Upper(MethodsOf(cm)[i]))]
    ELSE << >>
MethodsRaise(cm) ==
    \E i \in DOMAIN ParsedMethods(cm) : ParsedMethods(cm)[i] = "raise"

\* Mutant of TooFewThreads: nthreads < 2.
TooFewThreadsOffByOne(nthreads) == nthreads < 2

\* Line 134: if nthreads < 3.
TooFewThreads(nthreads) == nthreads < 3

\* Mutant of WorkerCount: nthreads - 1.
WorkerCountOneMore(nthreads) == nthreads - 1

\* Line 183: self.__nthreads = nthreads - 2.
WorkerCount(nthreads) == nthreads - 2

\* Lines 154-165: a whitelist that is given must be a Whitelist.
WhitelistArgs == {"None", "Whitelist", "other"}
WhitelistRaises(whitelist) == whitelist \notin {"None", "Whitelist"}

\* Lines 115-165: whether __init__ raises on its own checks.
InitRaises(a) ==
    \/ YamlRaises(a.eventalign_fn_dict)
    \/ CheckDictRaises(LoadDict(a.eventalign_fn_dict))
    \/ ~access_file(a.fasta_fn)
    \/ (a.bed_fn # "None" /\ ~access_file(a.bed_fn))
    \/ TooFewThreads(a.nthreads)
    \/ MethodsRaise(a.comparison_methods)
    \/ WhitelistRaises(a.whitelist)

\* Lines 167-191: the private fields of the object __init__ leaves.
NewSampComp(a) ==
    LET d == check_eventalign_fn_dict(LoadDict(a.eventalign_fn_dict)) IN
    [ class |-> "SampComp",
      eventalign_fn_dict |-> d,
      fasta_fn |-> a.fasta_fn,
      bed_fn |-> a.bed_fn,
      comparison_methods |-> ParsedMethods(a.comparison_methods),
      nthreads |-> WorkerCount(a.nthreads),
      n_samples |-> Cardinality(Entries(d)) ]

\* No object: __init__ has not run, or it raised.
NoObject ==
    [ class |-> "none", eventalign_fn_dict |-> << >>, fasta_fn |-> "",
      bed_fn |-> "", comparison_methods |-> << >>, nthreads |-> 0,
      n_samples |-> 0 ]

Args(e, fa, bed, cm, n, wl) ==
    [ eventalign_fn_dict |-> e, fasta_fn |-> fa, bed_fn |-> bed,
      comparison_methods |-> cm, nthreads |-> n, whitelist |-> wl ]

\* The arguments the constructor is tried on.
ArgsSet ==
    { Args(e, fa, bed, cm, n, wl) :
        e \in EventalignArgs, fa \in {"ref.fa", "missing.fa"},
        bed \in {"None", "ann.bed", "missing.bed"}, cm \in MethodArgs,
        n \in 1..NThreads, wl \in WhitelistArgs }

\* The arguments of the run the pipeline is modelled for: the defaults of
\* __init__ (lines 39-59) with nthreads = NThreads.
StandardArgs ==
    Args(DictArg(DictOk), "ref.fa", "None", MethodList(<< "GMM", "KS" >>),
         NThreads, "None")

\* The (cond_lab, sample_lab) files in the order __eventalign_fn_open
\* (lines 451-454) opens them: the order of eventalign_fn_dict.
OpenOrder == << << "A", "R1" >>, << "B", "R2" >> >>

\* The handles of a Worker once open() has succeeded for the first k files.
Handles(k) == [i \in DOMAIN OpenOrder |-> IF i <= k THEN "open" ELSE "none"]

\* Lines 457-461: __eventalign_fn_close closes every handle of fp_dict.
eventalign_fn_close(handles) ==
    [i \in DOMAIN handles |-> IF handles[i] = "open" THEN "closed" ELSE handles[i]]

\* -------------------------------------------------------------------- Init

\* The processes and the queues before anything has run.
ProcInit ==
    /\ in_q = << >>
    /\ out_q = << >>
    /\ error_q = << >>
    /\ errLog = << >>
    /\ ps_list = << >>
    /\ supOutcome = "none"
    /\ supRaised = << >>
    /\ dispPc = "iter"
    /\ dispCur = "none"
    /\ dispI = 0
    /\ dispK = 0
    /\ wPc = [w \in Workers |-> "start"]
    /\ wCur = [w \in Workers |-> 0]
    /\ wPills = [w \in Workers |-> 0]
    /\ wFp = [w \in Workers |-> "unbound"]
    /\ wHandles = [w \in Workers |-> Handles(0)]
    /\ wErr = [w \in Workers |-> "none"]
    /\ wrPc = "open"
    /\ wrPills = 0
    /\ ref_id_list = << >>
    /\ db = EmptyDb

\* The state after construction (lines 110-191) with StandardArgs.
PipeInit ==
    /\ ProcInit
    /\ supPc = "init"
    /\ args = StandardArgs
    /\ sampcomp = NewSampComp(StandardArgs)

\* prev_pos = None (line 302).
NoPos == -1

\* The (cond_lab, sample_lab) pairs of eventalign_fn_dict: two conditions
\* (line 414), here with one sample each.
Samples == {<< "A", "R1" >>, << "B", "R2" >>}

\* No data row parsed yet.
NoKmer ==
    [ ref_pos |-> NoPos, ref_kmer |-> << >>, median |-> 0, dwell_time |-> 0,
      NNNNN_dwell_time |-> 0, mismatch_dwell_time |-> 0 ]

\* Line 335: np.random.RandomState(seed = 42); a generator is its seed and
\* the number of draws made from it.
Seed == 42
RandomState(seed) == [seed |-> seed, draws |-> 0]
\* random_state before line 335 has run.
NoRandomState == [seed |-> 0, draws |-> 0]

\* txCompare has not been called for the table.
NoCall == [called |-> FALSE, methods |-> << >>, random_state |-> NoRandomState]

\* An argument that may be None: whether it is given, and its value.
Arg(v) == [given |-> TRUE, value |-> v]
NoArg == [given |-> FALSE, value |-> 0]

\* Line 325: np.finfo(np.float64).max, and a value beyond it (inf).
MaxFloat == 1000
Inf == MaxFloat + 1

\* The frame of get_valid_distr_data(mod, min, max, size, max_tries): pc is
\* "call", "loop", "returned", "raised" (NanocomporeError) or "ValueError";
\* draws counts the samples drawn.
Frame(mod, min, max, size, max_tries) ==
    [ pc |-> "call", mod |-> mod, min_arg |-> min, max_arg |-> max,
      size |-> size, max_tries |-> max_tries,
      min |-> 0, max |-> 0, i |-> 0, data |-> << >>, draws |-> 0 ]

\* get_valid_distr_data is not being called.
NoFrame == [Frame(NoArg, NoArg, NoArg, 0, 0) EXCEPT !.pc = "idle"]

\* SimReads is not running.
SimIdle ==
    /\ gvd = NoFrame
    /\ simPc = "idle"
    /\ ref_list = << >>
    /\ nreads_per_ref = 0
    /\ ref_num = 0
    /\ ref_seq = ""
    /\ read_num = 0
    /\ byte_offset = 0
    /\ data_fp = ""
    /\ idx_fp = << >>

FoldInit ==
    /\ fPc = "idle"
    /\ ref_len = 0
    /\ ref_pos_list = << >>
    /\ fSample = << "A", "R1" >>
    /\ kmers_stats = FALSE
    /\ lacks_stats_col = FALSE
    /\ prev_pos = NoPos
    /\ nReads = 0
    /\ nRows = 0
    /\ kmer = NoKmer
    /\ folded = << >>
    /\ random_state = NoRandomState
    /\ txComp = NoCall

Init == PipeInit /\ FoldInit /\ SimIdle

\* Before construction: __init__ is about to be called with any of the
\* arguments of ArgsSet.
ConstructInit ==
    /\ ProcInit
    /\ FoldInit
    /\ SimIdle
    /\ supPc = "new"
    /\ args \in ArgsSet
    /\ sampcomp = NoObject

\* Every process runs only once the Supervisor has started it (line 214).
Started == supPc # "init"

\* -------------------------------------------------------------- Supervisor

\* Lines 110-191: SampComp.__init__(args).  It raises on its own checks,
\* or when the Whitelist it has to make (lines 154-163) raises; otherwise
\* the object exists and __call__ can be invoked on it.
SampCompInit ==
    /\ supPc = "new"
    /\ \E whitelist_made \in BOOLEAN :
          IF InitRaises(args) \/ (args.whitelist = "None" /\ ~whitelist_made)
          THEN /\ supPc' = "rejected"
               /\ UNCHANGED sampcomp
          ELSE /\ supPc' = "init"
               /\ sampcomp' = NewSampComp(args)
    /\ UNCHANGED << foldVars, simVars, args, in_q, out_q, error_q, errLog, supOutcome,
                    supRaised, ps_list, dispVars, wVars, wrVars >>

\* Lines 204-214: ps_list is made of one Dispatcher, self.__nthreads
\* Workers and one Writer, then ps.start() for every process.  The processes are started
\* one after the other; a process that is not started yet behaves as one
\* that has taken no step yet, so one step starts them all.
SupStart ==
    /\ supPc = "init"
    /\ ps_list' = << "__list_refid" >>
                   \o [i \in 1..sampcomp.nthreads |-> "__process_references"]
                   \o << "__write_output" >>
    /\ supPc' = "monitor"
    /\ UNCHANGED << ctorVars, foldVars, simVars, in_q, out_q, error_q, errLog, supOutcome,
                    supRaised, dispVars, wVars, wrVars >>

\* Mutant of IsSentinel: no message ends the loop quietly.
IsSentinelNever(tb) == FALSE

\* Line 216: iter(error_q.get, None) stops at the message that equals None.
IsSentinel(tb) == tb = ErrNone

\* Lines 216-223: the first message error_q.get returns decides: None ends
\* the iter() loop, anything else is raised as NanocomporeError(tb), caught
\* and raised again (lines 221-223); error_q is not read again.
SupMonitor ==
    /\ supPc = "monitor"
    /\ error_q # << >>
    /\ IF IsSentinel(Head(error_q))
       THEN /\ supOutcome' = "success"
            /\ UNCHANGED supRaised
       ELSE /\ supOutcome' = "failure"
            /\ supRaised' = Append(supRaised, Head(error_q))
    /\ error_q' = Tail(error_q)
    /\ supPc' = "join"
    /\ UNCHANGED << ctorVars, foldVars, simVars, in_q, out_q, errLog, ps_list,
                    dispVars, wVars, wrVars >>

Exited(pc) == pc \in {"done", "died"}

AllExited ==
    /\ Exited(dispPc)
    /\ \A w \in Workers : Exited(wPc[w])
    /\ Exited(wrPc)

\* Lines 225-239: ps.join() for every process blocks until each has
\* exited; no process is then alive for ps.terminate(); the Supervisor
\* returns the SampCompDB or re-raises.
SupJoin ==
    /\ supPc = "join"
    /\ AllExited
    /\ supPc' = "returned"
    /\ UNCHANGED << ctorVars, foldVars, simVars, in_q, out_q, error_q, errLog, supOutcome,
                    supRaised, ps_list, dispVars, wVars, wrVars >>

Supervisor == SupStart \/ SupMonitor \/ SupJoin


\* -------------------------------------------------------------- Dispatcher

\* Mutant of DispatcherPills: one pill too many.
DispatcherPillsOneMore == self_nthreads + 1

\* Mutant of DispatcherPills: one pill too few.
DispatcherPillsOneLess == self_nthreads - 1

\* Lines 251 and 257: for i in range(self.__nthreads): in_q.put(None).
DispatcherPills == self_nthreads

\* Line 245: the whitelist yields the next (ref_id, ref_dict); it yields at
\* most NRefs references.
DispNext ==
    /\ Started
    /\ dispPc = "iter"
    /\ dispI < NRefs
    /\ \E kind \in Kinds : dispCur' = kind
    /\ dispPc' = "put"
    /\ UNCHANGED << ctorVars, foldVars, simVars, in_q, out_q, error_q, errLog, supVars, dispI, dispK,
                    wVars, wrVars >>

\* Line 247: in_q.put((ref_id, ref_dict)); put blocks while in_q is full.
DispPut ==
    /\ Started
    /\ dispPc = "put"
    /\ CanPut(in_q)
    /\ in_q' = Append(in_q, WorkItem(dispI + 1, dispCur))
    /\ dispI' = dispI + 1
    /\ dispCur' = "none"
    /\ dispPc' = "iter"
    /\ UNCHANGED << ctorVars, foldVars, simVars, out_q, error_q, errLog, supVars, dispK, wVars, wrVars >>

\* Line 245: the whitelist is exhausted (after any number of references);
\* the for loop ends.
DispExhausted ==
    /\ Started
    /\ dispPc = "iter"
    /\ dispPc' = "pills"
    /\ UNCHANGED << ctorVars, foldVars, simVars, in_q, out_q, error_q, errLog, supVars, dispCur, dispI, dispK,
                    wVars, wrVars >>

\* Lines 245, 255-256: iterating the whitelist raises.
DispRaise ==
    /\ Started
    /\ dispPc = "iter"
    /\ dispPc' = "except"
    /\ UNCHANGED << ctorVars, foldVars, simVars, in_q, out_q, error_q, errLog, supVars, dispCur, dispI, dispK,
                    wVars, wrVars >>

\* Lines 251-252 (after the loop) and 257-258 (in the except clause): one
\* in_q.put(None); after the last one the Dispatcher returns (pills) or
\* goes on to report (except).
DispPill ==
    /\ Started
    /\ dispPc \in {"pills", "except"}
    /\ dispK < DispatcherPills
    /\ CanPut(in_q)
    /\ in_q' = Append(in_q, None)
    /\ dispK' = dispK + 1
    /\ dispPc' = IF dispK + 1 < DispatcherPills THEN dispPc
                 ELSE IF dispPc = "pills" THEN "done" ELSE "report"
    /\ UNCHANGED << ctorVars, foldVars, simVars, out_q, error_q, errLog, supVars, dispCur, dispI, wVars, wrVars >>

\* Line 259: error_q.put(traceback.format_exc()); error_q is unbounded.
DispReport ==
    /\ Started
    /\ dispPc = "report"
    /\ error_q' = Append(error_q, TbDispatcher)
    /\ errLog' = Append(errLog, LogEntry("Dispatcher", 0, TbDispatcher))
    /\ dispPc' = "done"
    /\ UNCHANGED << ctorVars, foldVars, simVars, in_q, out_q, supVars, dispCur, dispI, dispK,
                    wVars, wrVars >>

Dispatcher == DispNext \/ DispPut \/ DispExhausted \/ DispRaise \/ DispPill \/ DispReport

\* ------------------------------------------------------------------ Worker

\* Line 360: for i in range(self.__nthreads): out_q.put(None), the number
\* of pills a Worker deals in its except clause.
WorkerExceptPills == self_nthreads

\* Line 353: out_q.put(None), the one pill a Worker deals when it ends on
\* its own pill.
WorkerEndPills == 1

\* Mutant of TaskRaises: the header and the column line are not checked.
TaskRaisesNever(item) == FALSE

\* Lines 277-331: folding the reads of a work item raises iff one of its
\* reads fails the header or the column check.
TaskRaises(item) == ReadRaises(ReadOf(item.ref_id, item.kind))

\* Line 269: fp_dict = self.__eventalign_fn_open() opens every file.
WorkerOpen(w) ==
    /\ Started
    /\ wPc[w] = "start"
    /\ wFp' = [wFp EXCEPT ![w] = "open"]
    /\ wHandles' = [wHandles EXCEPT ![w] = Handles(Len(OpenOrder))]
    /\ wPc' = [wPc EXCEPT ![w] = "get"]
    /\ UNCHANGED << ctorVars, foldVars, simVars, in_q, out_q, error_q, errLog, supVars, dispVars,
                    wCur, wPills, wErr, wrVars >>

\* Lines 269, 357, 451-454: open() raises for the first file; fp_dict
\* stays unbound and no handle is open.
WorkerOpenFail(w) ==
    /\ Started
    /\ wPc[w] = "start"
    /\ wErr' = [wErr EXCEPT ![w] = "open"]
    /\ wPc' = [wPc EXCEPT ![w] = "except"]
    /\ UNCHANGED << ctorVars, foldVars, simVars, in_q, out_q, error_q, errLog, supVars, dispVars,
                    wCur, wPills, wFp, wHandles, wrVars >>

\* Lines 269, 357, 451-454: open() raises for a later file, after it has
\* succeeded for the k files before it; fp_dict of the Worker stays
\* unbound, the handles made so far are held by the fp_dict of
\* __eventalign_fn_open only.
WorkerOpenFailLater(w) ==
    /\ Started
    /\ wPc[w] = "start"
    /\ \E k \in 1..(Len(OpenOrder) - 1) :
          wHandles' = [wHandles EXCEPT ![w] = Handles(k)]
    /\ wErr' = [wErr EXCEPT ![w] = "open"]
    /\ wPc' = [wPc EXCEPT ![w] = "except"]
    /\ UNCHANGED << ctorVars, foldVars, simVars, in_q, out_q, error_q, errLog, supVars, dispVars,
                    wCur, wPills, wFp, wrVars >>

\* Lines 272-345: in_q.get() returns a message.  None ends the iter()
\* loop.  A work item is folded at once (process-local): the Worker then
\* either holds the table to put, or is in its except clause.
WorkerGet(w) ==
    /\ Started
    /\ wPc[w] = "get"
    /\ in_q # << >>
    /\ in_q' = Get(in_q)
    /\ IF Head(in_q) = None
       THEN /\ wPc' = [wPc EXCEPT ![w] = "pill"]
            /\ UNCHANGED << ctorVars, foldVars, wCur, wErr >>
       ELSE /\ wCur' = [wCur EXCEPT ![w] = Head(in_q).ref_id]
            /\ IF TaskRaises(Head(in_q))
               THEN /\ wPc' = [wPc EXCEPT ![w] = "except"]
                    /\ wErr' = [wErr EXCEPT ![w] = "consistency"]
               ELSE /\ wPc' = [wPc EXCEPT ![w] = "put"]
                    /\ UNCHANGED wErr
    /\ UNCHANGED << ctorVars, foldVars, simVars, out_q, error_q, errLog, supVars, dispVars,
                    wPills, wFp, wHandles, wrVars >>

\* Line 349: out_q.put((ref_id, ref_pos_list)); put blocks while out_q is
\* full.
WorkerPut(w) ==
    /\ Started
    /\ wPc[w] = "put"
    /\ CanPut(out_q)
    /\ out_q' = Append(out_q, Result(wCur[w]))
    /\ wCur' = [wCur EXCEPT ![w] = 0]
    /\ wPc' = [wPc EXCEPT ![w] = "get"]
    /\ UNCHANGED << ctorVars, foldVars, simVars, in_q, error_q, errLog, supVars, dispVars,
                    wPills, wFp, wHandles, wErr, wrVars >>

\* Lines 353-354: out_q.put(None), then the files are closed and the
\* Worker returns.
WorkerPill(w) ==
    /\ Started
    /\ wPc[w] = "pill"
    /\ wPills[w] < WorkerEndPills
    /\ CanPut(out_q)
    /\ out_q' = Append(out_q, None)
    /\ wPills' = [wPills EXCEPT ![w] = @ + 1]
    /\ IF wPills[w] + 1 < WorkerEndPills
       THEN UNCHANGED << wFp, wHandles, wPc >>
       ELSE /\ wFp' = [wFp EXCEPT ![w] = "closed"]
            /\ wHandles' = [wHandles EXCEPT ![w] = eventalign_fn_close(@)]
            /\ wPc' = [wPc EXCEPT ![w] = "done"]
    /\ UNCHANGED << ctorVars, foldVars, simVars, in_q, error_q, errLog, supVars, dispVars,
                    wCur, wErr, wrVars >>

\* Lines 360-361: one out_q.put(None) of the except clause.
WorkerExceptPill(w) ==
    /\ Started
    /\ wPc[w] = "except"
    /\ wPills[w] < WorkerExceptPills
    /\ CanPut(out_q)
    /\ out_q' = Append(out_q, None)
    /\ wPills' = [wPills EXCEPT ![w] = @ + 1]
    /\ UNCHANGED << ctorVars, foldVars, simVars, in_q, error_q, errLog, supVars, dispVars,
                    wPc, wCur, wFp, wHandles, wErr, wrVars >>

\* Lines 362-363: self.__eventalign_fn_close(fp_dict), then
\* error_q.put(traceback.format_exc()).  When open() raised, fp_dict is
\* unbound: line 362 raises UnboundLocalError out of the except clause and
\* the process dies without reporting.
WorkerExceptReport(w) ==
    /\ Started
    /\ wPc[w] = "except"
    /\ wPills[w] >= WorkerExceptPills
    /\ IF wFp[w] = "open"
       THEN /\ wFp' = [wFp EXCEPT ![w] = "closed"]
            /\ wHandles' = [wHandles EXCEPT ![w] = eventalign_fn_close(@)]
            /\ error_q' = Append(error_q, TbWorker)
            /\ errLog' = Append(errLog, LogEntry("Worker", w, TbWorker))
            /\ wPc' = [wPc EXCEPT ![w] = "done"]
       ELSE /\ wPc' = [wPc EXCEPT ![w] = "died"]
            /\ UNCHANGED << wFp, wHandles, error_q, errLog >>
    /\ UNCHANGED << ctorVars, foldVars, simVars, in_q, out_q, supVars, dispVars,
                    wCur, wPills, wErr, wrVars >>

Worker(w) ==
    \/ WorkerOpen(w)
    \/ WorkerOpenFail(w)
    \/ WorkerGet(w)
    \/ WorkerPut(w)
    \/ WorkerPill(w)
    \/ WorkerExceptPill(w)
    \/ WorkerExceptReport(w)

\* ------------------------------------------------------------------ Writer

\* Mutant of WriterPills: range(nthreads), the Writer counts itself and the
\* Dispatcher among the Workers.
WriterPillsAllThreads == NThreads

\* Mutant of WriterPills: range(self.__nthreads - 1).
WriterPillsOneLess == self_nthreads - 1

\* Line 373: for _ in range(self.__nthreads), the number of pills the
\* Writer waits for.
WriterPills == self_nthreads

\* Mutant of shelve_open: flag='c', an existing database is opened as it
\* is.
shelve_open_existing(old) == old

\* Line 370: shelve.open(self.__db_fn, flag='n') always creates a new,
\* empty database, whatever the file held.
shelve_open(old) == EmptyDb

\* Line 370: with shelve.open(self.__db_fn, flag='n') as db.
WriterOpen ==
    /\ Started
    /\ wrPc = "open"
    /\ db' = shelve_open(db)
    /\ wrPc' = "pbar"
    /\ UNCHANGED << ctorVars, foldVars, simVars, in_q, out_q, error_q, errLog, supVars, dispVars,
                    wVars, wrPills, ref_id_list >>

\* Lines 370, 406-407: shelve.open raises; the except clause calls
\* pbar.close() with pbar unbound, which raises UnboundLocalError: the
\* process dies and line 408 is never reached.
WriterOpenFail ==
    /\ Started
    /\ wrPc = "open"
    /\ wrPc' = "died"
    /\ UNCHANGED << ctorVars, foldVars, simVars, in_q, out_q, error_q, errLog, supVars, dispVars,
                    wVars, wrPills, ref_id_list, db >>

\* Line 372: pbar = tqdm(...) is created.
WriterPbar ==
    /\ Started
    /\ wrPc = "pbar"
    /\ wrPc' = IF WriterPills = 0 THEN "index" ELSE "drain"
    /\ UNCHANGED << ctorVars, foldVars, simVars, in_q, out_q, error_q, errLog, supVars, dispVars,
                    wVars, wrPills, ref_id_list, db >>

\* Lines 372, 406-407: evaluating tqdm's arguments raises; pbar is unbound
\* in the except clause, as in WriterOpenFail.  Line 372 reads
\* self.__log_level, which __init__ (lines 110-191) never assigns: on an
\* instance that nothing else gave the attribute, this step is the only one
\* the Writer can take here.  WriterPbar above is the step of an instance
\* that has the attribute; both are kept, so that what is established of
\* the drain loop does not rest on line 372.
WriterPbarFail ==
    /\ Started
    /\ wrPc = "pbar"
    /\ wrPc' = "died"
    /\ UNCHANGED << ctorVars, foldVars, simVars, in_q, out_q, error_q, errLog, supVars, dispVars,
                    wVars, wrPills, ref_id_list, db >>

\* Lines 373-385: out_q.get() returns a message.  None ends one of the
\* nthreads inner loops; a (ref_id, table) is appended to ref_id_list and
\* written under its key.
WriterGet ==
    /\ Started
    /\ wrPc = "drain"
    /\ out_q # << >>
    /\ out_q' = Get(out_q)
    /\ IF Head(out_q) = None
       THEN /\ wrPills' = wrPills + 1
            /\ wrPc' = IF wrPills + 1 < WriterPills THEN "drain" ELSE "index"
            /\ UNCHANGED << ctorVars, foldVars, ref_id_list, db >>
       ELSE /\ ref_id_list' = Append(ref_id_list, Head(out_q).ref_id)
            /\ db' = [db EXCEPT !.tables = @ \cup {Head(out_q).ref_id}]
            /\ UNCHANGED << ctorVars, foldVars, wrPc, wrPills >>
    /\ UNCHANGED << ctorVars, foldVars, simVars, in_q, error_q, errLog, supVars, dispVars, wVars >>

\* Lines 384, 406-408: writing a table raises (after ref_id_list.append);
\* pbar is bound, the traceback is put on error_q.
WriterGetFail ==
    /\ Started
    /\ wrPc = "drain"
    /\ out_q # << >>
    /\ Head(out_q) # None
    /\ out_q' = Get(out_q)
    /\ ref_id_list' = Append(ref_id_list, Head(out_q).ref_id)
    /\ error_q' = Append(error_q, TbWriter)
    /\ errLog' = Append(errLog, LogEntry("Writer", 0, TbWriter))
    /\ wrPc' = "done"
    /\ UNCHANGED << ctorVars, foldVars, simVars, in_q, supVars, dispVars, wVars, wrPills, db >>

\* Lines 388-399: the index and the metadata are written, the shelve is
\* closed.
WriterIndex ==
    /\ Started
    /\ wrPc = "index"
    /\ db' = [db EXCEPT !.index = ref_id_list, !.has_index = TRUE,
                        !.metadata = TRUE]
    /\ wrPc' = "signal"
    /\ UNCHANGED << ctorVars, foldVars, simVars, in_q, out_q, error_q, errLog, supVars, dispVars,
                    wVars, wrPills, ref_id_list >>

\* Lines 388-399, 406-408: writing the index or the metadata raises.
WriterIndexFail ==
    /\ Started
    /\ wrPc = "index"
    /\ error_q' = Append(error_q, TbWriter)
    /\ errLog' = Append(errLog, LogEntry("Writer", 0, TbWriter))
    /\ wrPc' = "done"
    /\ UNCHANGED << ctorVars, foldVars, simVars, in_q, out_q, supVars, dispVars, wVars,
                    wrPills, ref_id_list, db >>

\* Lines 402-403: pbar.close(); error_q.put(None).
WriterSignal ==
    /\ Started
    /\ wrPc = "signal"
    /\ error_q' = Append(error_q, ErrNone)
    /\ errLog' = Append(errLog, LogEntry("Writer", 0, ErrNone))
    /\ wrPc' = "done"
    /\ UNCHANGED << ctorVars, foldVars, simVars, in_q, out_q, supVars, dispVars, wVars,
                    wrPills, ref_id_list, db >>

Writer ==
    \/ WriterOpen
    \/ WriterOpenFail
    \/ WriterPbar
    \/ WriterPbarFail
    \/ WriterGet
    \/ WriterGetFail
    \/ WriterIndex
    \/ WriterIndexFail
    \/ WriterSignal

\* -------------------------------------------------------------------- Spec

Next == Supervisor \/ Dispatcher \/ (\E w \in Workers : Worker(w)) \/ Writer

Spec == Init /\ [][Next]_vars

\* The operating system schedules every process that can take a step.
Fairness ==
    /\ WF_vars(Supervisor)
    /\ WF_vars(Dispatcher)
    /\ \A w \in Workers : WF_vars(Worker(w))
    /\ WF_vars(Writer)

FairSpec == Spec /\ Fairness

\* The pipeline with a Worker's open() failing at any of its files.
HandleNext == Next \/ (\E w \in Workers : WorkerOpenFailLater(w))

HandleSpec == Init /\ [][HandleNext]_vars

\* What an earlier run may have left in the file db_fn: nothing, or the
\* tables, the index and the metadata of its references.
LeftBehind ==
    { EmptyDb,
      [tables |-> {NRefs}, index |-> << NRefs >>, has_index |-> TRUE, metadata |-> TRUE] }

\* The state after construction, with the file of an earlier run in place.
StoreInit ==
    /\ in_q = << >> /\ out_q = << >> /\ error_q = << >> /\ errLog = << >>
    /\ ps_list = << >>
    /\ supPc = "init" /\ supOutcome = "none" /\ supRaised = << >>
    /\ dispPc = "iter" /\ dispCur = "none" /\ dispI = 0 /\ dispK = 0
    /\ wPc = [w \in Workers |-> "start"]
    /\ wCur = [w \in Workers |-> 0]
    /\ wPills = [w \in Workers |-> 0]
    /\ wFp = [w \in Workers |-> "unbound"]
    /\ wHandles = [w \in Workers |-> Handles(0)]
    /\ wErr = [w \in Workers |-> "none"]
    /\ wrPc = "open" /\ wrPills = 0 /\ ref_id_list = << >>
    /\ db \in LeftBehind
    /\ args = StandardArgs
    /\ sampcomp = NewSampComp(StandardArgs)
    /\ FoldInit
    /\ SimIdle

\* The pipeline run on a file that may exist already.
StoreSpec == StoreInit /\ [][Next]_vars

\* The constructor on any arguments, followed by the start of a run.
ConstructNext == SampCompInit \/ SupStart

ConstructSpec == ConstructInit /\ [][ConstructNext]_vars

\* ------------------------------------------ one Worker task: the folding

\* The reference sequences of the FASTA file: a reference of length L is
\* the first L bases of ACGTACGT...; it has at least one 5-mer.
Bases == << "A", "C", "G", "T" >>
RefSeq(L) == [i \in 1..L |-> Bases[((i - 1) % 4) + 1]]
RefLens == 5..MaxRefLen

\* Mutant of TableLen: range(ref_len-5).
TableLenShort(L) == IF L - 5 > 0 THEN L - 5 ELSE 0

\* Line 471: range(ref_len-4), the number of positions of the table.
TableLen(L) == IF L - 4 > 0 THEN L - 4 ELSE 0

\* Line 473: ref_seq[pos:pos+5].
RefKmer(seq, pos) == SubSeq(seq, pos + 1, pos + 5)

\* Lines 479-483: the empty statistics of one sample at one position.
EmptySampleStats ==
    [ intensity |-> << >>,
      dwell |-> << >>,
      coverage |-> 0,
      kmers_stats |-> [missing |-> 0, valid |-> 0, NNNNN |-> 0, mismatching |-> 0] ]

\* Lines 463-485: __make_ref_pos_list.  Position pos is element pos + 1.
make_ref_pos_list(L) ==
    [ i \in 1..TableLen(L) |->
        [ ref_kmer |-> RefKmer(RefSeq(L), i - 1),
          data |-> [cs \in Samples |-> EmptySampleStats] ] ]

\* Line 310: the marker appended to a k-mer that a row disagrees with.
Suspect == << "!", "!", "!", "!" >>

\* A k-mer no reference sequence holds.
OtherKmer == << "N", "N", "N", "N", "N" >>

\* The measurements of a data row.  The kmers stats are ratios of dwell
\* times (lines 324-326); they are kept in units of 1/StatScale, which is
\* exact for the dwell times drawn here.
StatScale == 2
Measurements ==
    { [median |-> 10, dwell_time |-> 1, NNNNN_dwell_time |-> 0, mismatch_dwell_time |-> 0],
      [median |-> 11, dwell_time |-> 2, NNNNN_dwell_time |-> 1, mismatch_dwell_time |-> 1] }

\* Lines 324-326.
n_valid(row) ==
    ((row.dwell_time - (row.NNNNN_dwell_time + row.mismatch_dwell_time)) * StatScale)
        \div row.dwell_time
n_NNNNN(row) == (row.NNNNN_dwell_time * StatScale) \div row.dwell_time
n_mismatching(row) == (row.mismatch_dwell_time * StatScale) \div row.dwell_time

\* Lines 320-321: the positions between prev_pos and pos that get a missing
\* count; "if prev_pos and ..." is false for None and for 0.
MissingPositions(prev, pos) ==
    IF prev # NoPos /\ prev # 0 /\ pos - prev > 1
    THEN (prev + 1)..(pos - 1)
    ELSE {}

\* Mutant of CheckKmer: the stored k-mer is left as it is.
CheckKmerKeeps(table, row) == table

\* Lines 308-311: a row whose ref_kmer differs from the stored one marks
\* the stored one.
CheckKmer(table, row) ==
    LET i == row.ref_pos + 1 IN
    IF row.ref_kmer # table[i].ref_kmer
    THEN [table EXCEPT ![i].ref_kmer = @ \o Suspect]
    ELSE table

\* Mutant of FillValues: the dwell time is not appended.
FillValuesNoDwell(table, cs, row) ==
    LET i == row.ref_pos + 1 IN
    [table EXCEPT ![i].data[cs].intensity = Append(@, row.median),
                  ![i].data[cs].coverage = @ + 1]

\* Lines 313-316: intensity, dwell and coverage of the row's position.
FillValues(table, cs, row) ==
    LET i == row.ref_pos + 1 IN
    [table EXCEPT ![i].data[cs].intensity = Append(@, row.median),
                  ![i].data[cs].dwell = Append(@, row.dwell_time),
                  ![i].data[cs].coverage = @ + 1]

\* Lines 318-329: the kmers stats, when the read has them.
FillKmersStats(table, cs, prev, row) ==
    LET i == row.ref_pos + 1
        gaps == MissingPositions(prev, row.ref_pos)
        filled == [j \in DOMAIN table |->
                     IF (j - 1) \in gaps
                     THEN [table[j] EXCEPT !.data[cs].kmers_stats.missing = @ + 1]
                     ELSE table[j]]
    IN [filled EXCEPT ![i].data[cs].kmers_stats.valid = @ + n_valid(row),
                      ![i].data[cs].kmers_stats.NNNNN = @ + n_NNNNN(row),
                      ![i].data[cs].kmers_stats.mismatching = @ + n_mismatching(row)]

\* A row as kept in folded: the number of its read, whether the read has
\* the kmers stats columns, and the row.
FoldedRow(read, stats, row) == [read |-> read, stats |-> stats, kmer |-> row]

\* No row folded yet into the table of a reference of length L.
NoRows(L) == [i \in 1..TableLen(L) |-> [cs \in Samples |-> << >>]]

\* Lines 303-331: one data row folded into the table.
FoldRowInto(table, cs, stats, prev, row) ==
    LET filled == FillValues(CheckKmer(table, row), cs, row) IN
    IF stats THEN FillKmersStats(filled, cs, prev, row) ELSE filled

\* Lines 272-275: a Worker takes a work item and makes the empty table of
\* its reference.
FoldMakeTable ==
    /\ fPc = "idle"
    /\ \E L \in RefLens :
          /\ ref_len' = L
          /\ ref_pos_list' = make_ref_pos_list(L)
          /\ folded' = NoRows(L)
    /\ kmer' = NoKmer
    /\ txComp' = NoCall
    /\ fPc' = "reads"
    /\ UNCHANGED << pipeVars, simVars, fSample, kmers_stats, lacks_stats_col, prev_pos,
                    nReads, nRows,
                    random_state >>

\* Lines 277-302: the next read of ref_dict: its header and its column line
\* are read and checked.
FoldReadStart ==
    /\ fPc = "reads"
    /\ nReads < MaxReads
    /\ nReads' = nReads + 1
    /\ \E cs \in Samples, kind \in Kinds, extra \in SUBSET KmersStatsFields :
          LET read == [ReadOf(1, kind) EXCEPT !.col_names = @ \cup extra] IN
          /\ fSample' = cs
          /\ IF ReadRaises(read)
             THEN /\ fPc' = "raised"
                  /\ UNCHANGED << kmers_stats, lacks_stats_col, prev_pos >>
             ELSE /\ fPc' = "rows"
                  /\ kmers_stats' = all_values_in(KmersStatsFields, read.col_names)
                  /\ lacks_stats_col' = (\E f \in KmersStatsFields : f \notin read.col_names)
                  /\ prev_pos' = NoPos
    /\ kmer' = NoKmer
    /\ UNCHANGED << pipeVars, simVars, ref_len, ref_pos_list, nRows, folded,
                    random_state, txComp >>

\* Lines 303-331: the next data row of the read.  A row names a position
\* >= 0; ref_pos_list[pos] raises IndexError for a position the table does
\* not have.
FoldRow ==
    /\ fPc = "rows"
    /\ nRows < MaxRows
    /\ nRows' = nRows + 1
    /\ \E pos \in 0..TableLen(ref_len), m \in Measurements, agrees \in BOOLEAN :
          LET row  == [ ref_pos |-> pos,
                        ref_kmer |-> IF agrees /\ pos < TableLen(ref_len)
                                     THEN RefKmer(RefSeq(ref_len), pos)
                                     ELSE OtherKmer,
                        median |-> m.median,
                        dwell_time |-> m.dwell_time,
                        NNNNN_dwell_time |-> m.NNNNN_dwell_time,
                        mismatch_dwell_time |-> m.mismatch_dwell_time ]
          IN /\ kmer' = row
             /\ IF pos + 1 \in DOMAIN ref_pos_list
                THEN /\ ref_pos_list' =
                           FoldRowInto(ref_pos_list, fSample, kmers_stats, prev_pos, row)
                     /\ prev_pos' = IF kmers_stats THEN pos ELSE prev_pos
                     /\ folded' = [folded EXCEPT ![pos + 1][fSample] =
                                       Append(@, FoldedRow(nReads, kmers_stats, row))]
                     /\ UNCHANGED fPc
                ELSE /\ fPc' = "raised"
                     /\ UNCHANGED << ref_pos_list, prev_pos, folded >>
    /\ UNCHANGED << pipeVars, simVars, ref_len, fSample, kmers_stats, lacks_stats_col,
                    nReads,
                    random_state, txComp >>

\* Line 303: the read has no more data rows.
FoldReadEnd ==
    /\ fPc = "rows"
    /\ fPc' = "reads"
    /\ UNCHANGED << pipeVars, simVars, ref_len, ref_pos_list, fSample, kmers_stats,
                    lacks_stats_col,
                    prev_pos, nReads, nRows, kmer, folded,
                    random_state, txComp >>

\* Lines 277-281, 333: ref_dict has no more reads; the table is loaded.
FoldLoaded ==
    /\ fPc = "reads"
    /\ fPc' = "loaded"
    /\ UNCHANGED << pipeVars, simVars, ref_len, ref_pos_list, fSample, kmers_stats,
                    lacks_stats_col,
                    prev_pos, nReads, nRows, kmer, folded,
                    random_state, txComp >>

\* Mutant of NewRandomState: the generator is made once per Worker and
\* kept from one reference to the next.
KeptRandomState(old) == IF old = NoRandomState THEN RandomState(Seed) ELSE old

\* Line 335: random_state = np.random.RandomState(seed=42), whatever
\* random_state was before.
NewRandomState(old) == RandomState(Seed)

\* Lines 334-345: when comparison methods are configured, a generator is
\* made and txCompare is called with the table, the methods and the
\* generator, from which it draws.
FoldCompare ==
    /\ fPc = "loaded"
    /\ fPc' = "put"
    /\ IF sampcomp.comparison_methods # << >>
       THEN LET rs == NewRandomState(random_state) IN
            /\ txComp' = [ called |-> TRUE,
                           methods |-> sampcomp.comparison_methods,
                           random_state |-> rs ]
            /\ random_state' = [rs EXCEPT !.draws = @ + 1]
       ELSE UNCHANGED << txComp, random_state >>
    /\ UNCHANGED << pipeVars, simVars, ref_len, ref_pos_list, fSample, kmers_stats,
                    lacks_stats_col,
                    prev_pos, nReads, nRows, kmer, folded >>

\* Lines 347-349, 272: the table is put on out_q and the Worker goes back
\* to in_q.get for its next work item.
FoldNextTask ==
    /\ fPc = "put"
    /\ fPc' = "idle"
    /\ UNCHANGED << pipeVars, simVars, ref_len, ref_pos_list, fSample, kmers_stats,
                    lacks_stats_col,
                    prev_pos, nReads, nRows, kmer, folded,
                    random_state, txComp >>

\* One work item, from in_q.get to the table ready for out_q.put.
FoldNext ==
    \/ FoldMakeTable
    \/ FoldReadStart
    \/ FoldRow
    \/ FoldReadEnd
    \/ FoldLoaded
    \/ FoldCompare

FoldSpec == Init /\ [][FoldNext]_vars

\* One Worker, work item after work item.
TaskNext == FoldNext \/ FoldNextTask

\* The arguments of a run without comparison methods.
NoMethodsArgs ==
    Args(DictArg(DictOk), "ref.fa", "None", MethodList(<< >>), NThreads, "None")

\* A Worker of a run with or without comparison methods, before its first
\* work item.
TaskInit ==
    /\ ProcInit
    /\ FoldInit
    /\ SimIdle
    /\ supPc = "init"
    /\ args \in {StandardArgs, NoMethodsArgs}
    /\ sampcomp = NewSampComp(args)

TaskSpec == TaskInit /\ [][TaskNext]_vars

\* ---------------------------------------------------------------- SimReads

\* The FASTA file: the names of its references and their sequences.  A
\* file is a string; "\n" and "\t" are one character each.
FastaKeys == << "r0", "r1", "r2" >>
FastaIds == {FastaKeys[i] : i \in DOMAIN FastaKeys}
FastaSeq(ref_id) ==
    CASE ref_id = "r0" -> "ACGT"
      [] ref_id = "r1" -> "ACGTA"
      [] ref_id = "r2" -> "ACGTACG"

\* A name that is not in the FASTA file: fasta_fp[ref_id] raises KeyError.
MissingId == "zz"

\* The ref_list arguments: up to NRefs names; [] stands for every
\* reference of the FASTA file (lines 116-117).
SeqsUpTo(S, n) == UNION {[1..k -> S] : k \in 0..n}
RefLists == SeqsUpTo(FastaIds \cup {MissingId}, NRefs)

\* What simulate_ref_mod_context drew for one read, as it is formatted
\* into the data rows: the dwell time and the median intensity.
SimValues ==
    { [dwell_time |-> "0.5", median |-> "90.25"],
      [dwell_time |-> "0.0125", median |-> "101.5"] }

\* Lines 154-155: the header line and the column line of a read.
HeaderLine(n, r, ref_id) ==
    "#" \o ToString(n) \o "_" \o ToString(r) \o "\t" \o ref_id \o "\n"
ColumnLine == "ref_pos\tref_kmer\tdwell_time\tmedian\n"

\* Lines 157-161: one data row.
DataRow(seq, pos, v) ==
    ToString(pos) \o "\t" \o SubSeq(seq, pos + 1, pos + 5) \o "\t"
        \o v.dwell_time \o "\t" \o v.median \o "\n"

\* Lines 156-161: the data rows for the positions from..(len(ref_seq)-5).
RECURSIVE DataRows(_, _, _)
DataRows(seq, from, v) ==
    IF from >= Len(seq) - 4
    THEN ""
    ELSE DataRow(seq, from, v) \o DataRows(seq, from + 1, v)

\* Lines 154-161: read_str.
ReadStr(n, r, ref_id, seq, v) ==
    HeaderLine(n, r, ref_id) \o ColumnLine \o DataRows(seq, 0, v)

\* Mutant of ByteLen: the final newline is counted.
ByteLenWithNewline(read_str) == Len(read_str)

\* Line 164: len(read_str)-1, the byte_len of the index entry.
ByteLen(read_str) == Len(read_str) - 1

\* Line 164: the index entry of a read.
IdxEntry(ref_id, n, r, offset, len) ==
    [ ref_id |-> ref_id,
      read_id |-> ToString(n) \o "_" \o ToString(r),
      byte_offset |-> offset,
      byte_len |-> len ]

\* SimReads is about to be called on some ref_list and nreads_per_ref.
SimInit ==
    /\ PipeInit
    /\ FoldInit
    /\ gvd = NoFrame
    /\ simPc = "open"
    /\ ref_list \in RefLists
    /\ nreads_per_ref \in 0..MaxReads
    /\ ref_num = 0
    /\ ref_seq = ""
    /\ read_num = 0
    /\ byte_offset = 0
    /\ data_fp = ""
    /\ idx_fp = << >>

\* Lines 110-122: the files are opened, ref_list defaults to the keys of
\* the FASTA file, the header of the index is written, byte_offset = 0.
SimOpen ==
    /\ simPc = "open"
    /\ ref_list' = IF ref_list = << >> THEN FastaKeys ELSE ref_list
    /\ byte_offset' = 0
    /\ simPc' = "ref"
    /\ UNCHANGED << pipeVars, foldVars, gvd, nreads_per_ref, ref_num, ref_seq,
                    read_num, data_fp, idx_fp >>

\* Lines 124-128, 167-168: the next reference is not in the FASTA file:
\* fasta_fp[ref_id] raises KeyError, which is caught; the loop goes on.
SimRefMissing ==
    /\ simPc = "ref"
    /\ ref_num < Len(ref_list)
    /\ ref_list[ref_num + 1] \notin FastaIds
    /\ ref_num' = ref_num + 1
    /\ UNCHANGED << pipeVars, foldVars, gvd, simPc, ref_list, nreads_per_ref,
                    ref_seq, read_num, byte_offset, data_fp, idx_fp >>

\* Lines 124-150: the next reference is read and its data simulated.
SimRefStart ==
    /\ simPc = "ref"
    /\ ref_num < Len(ref_list)
    /\ ref_list[ref_num + 1] \in FastaIds
    /\ ref_seq' = FastaSeq(ref_list[ref_num + 1])
    /\ read_num' = 0
    /\ simPc' = "reads"
    /\ UNCHANGED << pipeVars, foldVars, gvd, ref_list, nreads_per_ref, ref_num,
                    byte_offset, data_fp, idx_fp >>

\* Lines 131-144, 346: simulate_ref_mod_context raises NanocomporeError
\* (no valid data drawn), which is not caught: SimReads ends.
SimRefRaise ==
    /\ simPc = "ref"
    /\ ref_num < Len(ref_list)
    /\ ref_list[ref_num + 1] \in FastaIds
    /\ simPc' = "raised"
    /\ UNCHANGED << pipeVars, foldVars, gvd, ref_list, nreads_per_ref, ref_num,
                    ref_seq, read_num, byte_offset, data_fp, idx_fp >>

\* Lines 153-165: one read: read_str is made and written to the data
\* file, its entry to the index, and byte_offset moves on.
SimWriteRead ==
    /\ simPc = "reads"
    /\ read_num < nreads_per_ref
    /\ \E v \in SimValues :
          LET ref_id == ref_list[ref_num + 1]
              read_str == ReadStr(ref_num, read_num, ref_id, ref_seq, v)
          IN /\ data_fp' = data_fp \o read_str
             /\ idx_fp' = Append(idx_fp, IdxEntry(ref_id, ref_num, read_num,
                                                  byte_offset, ByteLen(read_str)))
             /\ byte_offset' = byte_offset + Len(read_str)
    /\ read_num' = read_num + 1
    /\ UNCHANGED << pipeVars, foldVars, gvd, simPc, ref_list, nreads_per_ref,
                    ref_num, ref_seq >>

\* Line 153: the reference has no more reads to write.
SimRefEnd ==
    /\ simPc = "reads"
    /\ read_num >= nreads_per_ref
    /\ ref_num' = ref_num + 1
    /\ simPc' = "ref"
    /\ UNCHANGED << pipeVars, foldVars, gvd, ref_list, nreads_per_ref, ref_seq,
                    read_num, byte_offset, data_fp, idx_fp >>

\* Line 124: ref_list is exhausted; the files are closed.
SimEnd ==
    /\ simPc = "ref"
    /\ ref_num >= Len(ref_list)
    /\ simPc' = "done"
    /\ UNCHANGED << pipeVars, foldVars, gvd, ref_list, nreads_per_ref, ref_num,
                    ref_seq, read_num, byte_offset, data_fp, idx_fp >>

SimNext ==
    \/ SimOpen
    \/ SimRefMissing
    \/ SimRefStart
    \/ SimRefRaise
    \/ SimWriteRead
    \/ SimRefEnd
    \/ SimEnd

SimSpec == SimInit /\ [][SimNext]_vars

\* ---------------------------------------------------- get_valid_distr_data

\* The largest max_tries a call is given (10000 by default, scaled down).
MaxTries == 2

\* The values a distribution yields.
DrawValues == {-1, 1, 4, 7, Inf}

\* The calls: mod, min and max None, 0 or a number; size from 0 (no read
\* to draw for: nreads_mod = int(np.rint(nreads*mod_reads_freq)) is 0 for
\* a small mod_reads_freq) to MaxReads; max_tries from 0 to MaxTries.
Frames ==
    { Frame(mod, min, max, size, max_tries) :
        mod \in {NoArg, Arg(1)}, min \in {NoArg, Arg(0), Arg(2)},
        max \in {NoArg, Arg(5)}, size \in 0..MaxReads, max_tries \in 0..MaxTries }

\* Python's truth value of an argument: None and 0 are false.
IsTrue(a) == a.given /\ a.value # 0

\* A sample of size 0.
IsEmpty(data) == DOMAIN data = {}

\* min and max of a sample with at least one value.
Minimum(data) == CHOOSE v \in {data[k] : k \in DOMAIN data} :
                    \A k \in DOMAIN data : v <= data[k]
Maximum(data) == CHOOSE v \in {data[k] : k \in DOMAIN data} :
                    \A k \in DOMAIN data : v >= data[k]

\* Line 333: data.min() > min and data.max() < max.
InBounds(data, min, max) == Minimum(data) > min /\ Maximum(data) < max

\* Lines 313-325: the bounds the loop starts with: the given ones moved by
\* mod, 0 and the largest float where none is given.
FirstMin(f) ==
    IF ~IsTrue(f.min_arg) THEN 0
    ELSE IF IsTrue(f.mod) THEN f.min_arg.value + f.mod.value ELSE f.min_arg.value
FirstMax(f) ==
    IF ~IsTrue(f.max_arg) THEN MaxFloat
    ELSE IF IsTrue(f.mod) THEN f.max_arg.value + f.mod.value ELSE f.max_arg.value

\* Line 345: if i > max_tries*2.
GiveUp(i, max_tries) == i > max_tries * 2

\* Line 339: if i > max_tries.
FallBack(i, max_tries) == i > max_tries

\* A call of get_valid_distr_data is about to be made.
DrawInit ==
    /\ PipeInit
    /\ FoldInit
    /\ simPc = "idle"
    /\ ref_list = << >>
    /\ nreads_per_ref = 0
    /\ ref_num = 0
    /\ ref_seq = ""
    /\ read_num = 0
    /\ byte_offset = 0
    /\ data_fp = ""
    /\ idx_fp = << >>
    /\ gvd \in Frames

\* Lines 313-328: the bounds are set, i = 0.
DrawCall ==
    /\ gvd.pc = "call"
    /\ gvd' = [gvd EXCEPT !.pc = "loop", !.min = FirstMin(gvd),
                          !.max = FirstMax(gvd), !.i = 0]
    /\ UNCHANGED << pipeVars, foldVars, loopVars >>

\* Lines 330-334: a sample of size values is drawn; data.min() and
\* data.max() of an empty sample raise ValueError; a sample strictly inside
\* the bounds is returned.
DrawReturn ==
    /\ gvd.pc = "loop"
    /\ \E data \in [1..gvd.size -> DrawValues] :
          /\ IF IsEmpty(data) THEN TRUE ELSE InBounds(data, gvd.min, gvd.max)
          /\ gvd' = [gvd EXCEPT !.data = data, !.draws = @ + 1,
                                !.pc = IF IsEmpty(data) THEN "ValueError"
                                       ELSE "returned"]
    /\ UNCHANGED << pipeVars, foldVars, loopVars >>

\* Lines 330-346: a sample is drawn that is not inside the bounds: i
\* counts it, the bounds fall back to the safe ones after max_tries, and
\* the call raises NanocomporeError after 2*max_tries.
DrawAgain ==
    /\ gvd.pc = "loop"
    /\ \E data \in [1..gvd.size -> DrawValues] :
          /\ IF IsEmpty(data) THEN FALSE ELSE ~InBounds(data, gvd.min, gvd.max)
          /\ LET i == gvd.i + 1 IN
             gvd' = [gvd EXCEPT
                       !.data = data,
                       !.draws = @ + 1,
                       !.i = i,
                       !.min = IF FallBack(i, gvd.max_tries) THEN 0 ELSE @,
                       !.max = IF FallBack(i, gvd.max_tries) THEN MaxFloat ELSE @,
                       !.pc = IF GiveUp(i, gvd.max_tries) THEN "raised" ELSE "loop"]
    /\ UNCHANGED << pipeVars, foldVars, loopVars >>

DrawNext == DrawCall \/ DrawReturn \/ DrawAgain

DrawSpec == DrawInit /\ [][DrawNext]_vars

\* ------------------------------------------------- notions the claims use

\* The Supervisor has handed control back to the caller.
Returned == supPc = "returned"
ReturnedSuccess == Returned /\ supOutcome = "success"

\* The ref_ids the Dispatcher has put on in_q.
Dispatched == 1..dispI

\* The Writer has written the index and put None on error_q.
WriterSignalledSuccess == wrPc = "done" /\ db.has_index

\* Worker w met a read that fails the header or the column check.
MetBadRead(w) == wErr[w] = "consistency"

\* How often ref_id r occurs among the messages of queue q.
Occurrences(q, r) == Cardinality({i \in DOMAIN q : q[i].ref_id = r})

\* How often r occurs in the pipeline: on in_q, in a Worker's hands, on
\* out_q, in the Writer's ref_id_list.
Copies(r) ==
    Occurrences(in_q, r)
    + Cardinality({w \in Workers : wCur[w] = r})
    + Occurrences(out_q, r)
    + Cardinality({i \in DOMAIN ref_id_list : ref_id_list[i] = r})

\* A Worker has folded r and put its table on out_q.
Processed(r) ==
    \/ Occurrences(out_q, r) > 0
    \/ \E i \in DOMAIN ref_id_list : ref_id_list[i] = r

\* ------------------------------------------------------------------ claims

C3_SupervisorNeverStuck == Returned \/ ENABLED Next

C5_WriterLeavesDrain ==
    (wrPc = "drain") ~> (wrPills = WriterPills \/ wrPc = "done")

\* C5 witness: the Writer has taken all its pills in a run in which a
\* Worker raised in the middle of a task.
C5_Witness ==
    /\ wrPc = "index"
    /\ wrPills = WriterPills
    /\ \E w \in Workers : MetBadRead(w)

\* C6: the Dispatcher never puts more than nthreads pills on in_q, has put
\* exactly nthreads when it ends, whether the iteration completed or
\* raised, and puts no work item once it has put a pill: on in_q no work
\* item follows a pill.
C6_DispatcherPills ==
    /\ dispK <= self_nthreads
    /\ dispPc \in {"report", "done"} => dispK = self_nthreads
    /\ dispK > 0 => dispPc \notin {"iter", "put"}
    /\ \A i, j \in DOMAIN in_q : (i < j /\ in_q[i] = None) => in_q[j] = None

\* C6 witness: the iteration raised after a work item was put, and all
\* nthreads pills are on their way.
C6_Witness ==
    /\ dispPc = "report"
    /\ dispI >= 1
    /\ dispK = self_nthreads

\* C7: every Worker puts exactly one pill on out_q: never more than one,
\* and one when it has ended, on its pill or on an exception.
C7_OnePillPerWorker ==
    \A w \in Workers :
        /\ wPills[w] <= 1
        /\ Exited(wPc[w]) => wPills[w] = 1

C9_QueuesBounded ==
    /\ [](Len(in_q) <= QueueMaxsize /\ Len(out_q) <= QueueMaxsize)
    /\ [][ /\ Len(in_q) = QueueMaxsize => Len(in_q') <= Len(in_q)
           /\ Len(out_q) = QueueMaxsize => Len(out_q') <= Len(out_q) ]_vars

\* C9 witness: both queues are full, the Dispatcher waits to put a pill
\* and a Worker holds a table it cannot put.
C9_Witness ==
    /\ Len(in_q) = QueueMaxsize
    /\ Len(out_q) = QueueMaxsize
    /\ dispPc \in {"pills", "except"}
    /\ \E w \in Workers : wPc[w] = "put"

\* C10: the table made for a reference of length L has L-4 records, for
\* the positions 0..L-5, and no read or row folded into it changes its
\* length.
C10_TableLength ==
    fPc # "idle" =>
        /\ Len(ref_pos_list) = ref_len - 4
        /\ DOMAIN ref_pos_list = {pos + 1 : pos \in 0..(ref_len - 5)}

\* C10 witness: MaxRows rows of MaxReads reads were folded into the table
\* of the longest reference.
C10_Witness ==
    /\ fPc = "loaded"
    /\ ref_len = MaxRefLen
    /\ nReads = MaxReads
    /\ nRows = MaxRows
    /\ Len(ref_pos_list) = ref_len - 4

\* ------------------------------------------------- notions of the folding

\* The positions of the table, and one sample's statistics at a position.
Positions == 0..(Len(ref_pos_list) - 1)
StatsAt(pos, cs) == ref_pos_list[pos + 1].data[cs]

\* The rows of sample cs folded so far that named position pos, in the
\* order of the data file.
RowsAt(pos, cs) == folded[pos + 1][cs]

\* The reads of sample cs of which a row named position pos.
ReadsNaming(pos, cs) ==
    {RowsAt(pos, cs)[i].read : i \in DOMAIN RowsAt(pos, cs)}

\* A step that folds one more data row of the read (lines 303-331).
RowFolded == fPc = "rows" /\ fPc' = "rows" /\ nRows' = nRows + 1

\* The row just folded follows, in its read, a row at position p and is
\* itself at q, and position pos lies between them: p < pos < q.
SkippedByRow(pos) ==
    prev_pos # NoPos /\ prev_pos < pos /\ pos < kmer'.ref_pos

\* The row's ref_kmer is the reference sequence's k-mer at its position.
Matches(row) == row.ref_kmer = RefKmer(RefSeq(ref_len), row.ref_pos)

\* A stored k-mer that carries the marker of line 310.
IsSuspect(stored) ==
    /\ Len(stored) > Len(Suspect)
    /\ SubSeq(stored, Len(stored) - Len(Suspect) + 1, Len(stored)) = Suspect

\* How often value v occurs in a sequence.
CountIn(seq, v) == Cardinality({i \in DOMAIN seq : seq[i] = v})

\* The intensity and dwell multisets of every position and sample are
\* those of the rows of the work item: a function of the input alone.
MultisetsOfInput ==
    \A pos \in Positions, cs \in Samples :
        /\ Len(StatsAt(pos, cs).intensity) = Len(RowsAt(pos, cs))
        /\ Len(StatsAt(pos, cs).dwell) = Len(RowsAt(pos, cs))
        /\ \A m \in Measurements :
              /\ CountIn(StatsAt(pos, cs).intensity, m.median)
                    = CountIn([i \in DOMAIN RowsAt(pos, cs) |->
                                  RowsAt(pos, cs)[i].kmer.median], m.median)
              /\ CountIn(StatsAt(pos, cs).dwell, m.dwell_time)
                    = CountIn([i \in DOMAIN RowsAt(pos, cs) |->
                                  RowsAt(pos, cs)[i].kmer.dwell_time], m.dwell_time)

\* ------------------------------------------------- claims of the folding

C12_MissingCountsGaps ==
    [][ (RowFolded /\ kmers_stats) =>
           \A pos \in Positions, cs \in Samples :
               ref_pos_list'[pos + 1].data[cs].kmers_stats.missing =
                   StatsAt(pos, cs).kmers_stats.missing
                   + (IF cs = fSample /\ SkippedByRow(pos) THEN 1 ELSE 0) ]_vars

\* C13: a data row whose ref_kmer differs from the reference sequence's
\* k-mer at its position never makes the Worker raise (a row raises only
\* for a position the table does not have); the stored k-mer of its
\* position is marked suspect, and intensity, dwell and coverage of every
\* position hold every row that named it, matching or not, in order.
C13_MismatchIsFolded ==
    /\ (fPc = "raised" /\ kmer # NoKmer) => kmer.ref_pos \notin Positions
    /\ \A pos \in Positions, cs \in Samples :
          \A i \in DOMAIN RowsAt(pos, cs) :
              ~Matches(RowsAt(pos, cs)[i].kmer) =>
                  IsSuspect(ref_pos_list[pos + 1].ref_kmer)
    /\ \A pos \in Positions, cs \in Samples :
          /\ StatsAt(pos, cs).intensity =
                [i \in DOMAIN RowsAt(pos, cs) |-> RowsAt(pos, cs)[i].kmer.median]
          /\ StatsAt(pos, cs).dwell =
                [i \in DOMAIN RowsAt(pos, cs) |-> RowsAt(pos, cs)[i].kmer.dwell_time]
          /\ StatsAt(pos, cs).coverage = Len(RowsAt(pos, cs))

\* C13 witness: a row that disagrees with the reference sequence and a row
\* that agrees were folded into the same position of the same sample.
C13_Witness ==
    /\ fPc = "loaded"
    /\ \E pos \in Positions, cs \in Samples :
          /\ Len(RowsAt(pos, cs)) = 2
          /\ ~Matches(RowsAt(pos, cs)[1].kmer)
          /\ Matches(RowsAt(pos, cs)[2].kmer)
          /\ Len(StatsAt(pos, cs).intensity) = 2

\* C14 (as claimed): the table a Worker hands over holds, at every
\* position and for every sample, the intensity and dwell multisets of the
\* rows of its work item, and txCompare has been called for it with a
\* generator freshly seeded with the fixed seed, whatever the Worker did
\* before.
C14_SameSeedEveryReference ==
    fPc = "put" =>
        /\ MultisetsOfInput
        /\ txComp.called
        /\ txComp.random_state = RandomState(Seed)

\* C14 (amended): as above, txCompare being called when comparison methods
\* are configured, and not otherwise.
C14_SameSeedWhenMethods ==
    fPc = "put" =>
        /\ MultisetsOfInput
        /\ sampcomp.comparison_methods # << >> =>
              /\ txComp.called
              /\ txComp.methods = sampcomp.comparison_methods
              /\ txComp.random_state = RandomState(Seed)
        /\ sampcomp.comparison_methods = << >> => ~txComp.called

\* C14 witness: txCompare is called for the table of a reference the
\* Worker took after it had handled another one with a data row.
C14_Witness ==
    /\ fPc = "put"
    /\ txComp.called
    /\ nRows = MaxRows
    /\ \E pos \in Positions, cs \in Samples :
          /\ Len(RowsAt(pos, cs)) = 1
          /\ RowsAt(pos, cs)[1].read = MaxReads
          /\ \A p2 \in Positions, c2 \in Samples :
                << p2, c2 >> # << pos, cs >> => RowsAt(p2, c2) = << >>

\* -------------------------------------------- notions of the later claims

\* The names the claim lists, and the names args gives (case aside).
ListedMethodNames ==
    {"MW", "KS", "TT", "GMM", "MANN_WHITNEY", "KOLMOGOROV_SMIRNOV", "T_TEST",
     "GAUSSIAN_MIXTURE_MODEL"}
GivenMethodNames(a) ==
    {Upper(a.comparison_methods.value[i]) :
        i \in {j \in DOMAIN a.comparison_methods.value :
                  a.comparison_methods.value[j] # ","}}

\* The mapping of conditions the arguments give, when it can be read.
GivenMapping(a) ==
    IF a.eventalign_fn_dict.type = "dict"
    THEN a.eventalign_fn_dict.dict
    ELSE YamlContent(a.eventalign_fn_dict.path)
MappingReadable(a) ==
    a.eventalign_fn_dict.type = "dict" \/ access_file(a.eventalign_fn_dict.path)
GivenFiles(a) ==
    [e \in Entries(GivenMapping(a)) |-> FnAt(GivenMapping(a), e)]

\* The configuration errors the claim lists.
ConfigError(a) ==
    \/ \E name \in GivenMethodNames(a) : name \notin ListedMethodNames
    \/ a.nthreads < 3
    \/ MappingReadable(a) /\ Len(GivenMapping(a)) # 2
    \/ MappingReadable(a) /\ \E e \in DOMAIN GivenFiles(a) :
                                \/ ~access_file(GivenFiles(a)[e])
                                \/ \E e2 \in DOMAIN GivenFiles(a) \ {e} :
                                      GivenFiles(a)[e2] = GivenFiles(a)[e]
    \/ ~access_file(a.fasta_fn)
    \/ a.bed_fn # "None" /\ ~access_file(a.bed_fn)

\* How many processes of ps_list run the given target.
Launched(target) == Cardinality({i \in DOMAIN ps_list : ps_list[i] = target})

\* The messages a process has put on error_q so far.
PutOnErrorQ(proc, pid, msg) ==
    Cardinality({i \in DOMAIN errLog : errLog[i] = LogEntry(proc, pid, msg)})

\* Worker w hit an exception, at startup or in the middle of a task.
WorkerRaised(w) == wErr[w] # "none"

\* The Writer has ended without signalling success: it raised.
WriterRaised == Exited(wrPc) /\ PutOnErrorQ("Writer", 0, ErrNone) = 0

\* The Dispatcher has put its failure on error_q.
DispatcherReported == PutOnErrorQ("Dispatcher", 0, TbDispatcher) > 0

\* ----------------------------------------------------------- later claims

\* C15: on arguments with a configuration error (an unknown comparison
\* method, nthreads < 3, not exactly two conditions, an eventalign file
\* that cannot be read or is given twice, a FASTA or BED file that cannot
\* be read) there never is a SampComp object, and no process is started.
C15_ConfigErrorNoObject ==
    ConfigError(args) =>
        /\ sampcomp.class = "none"
        /\ ps_list = << >>
        /\ supPc \in {"new", "rejected"}

\* C15 witness: the constructor has rejected arguments whose only error
\* is nthreads = 2.
C15_Witness ==
    /\ supPc = "rejected"
    /\ args = Args(DictArg(DictOk), "ref.fa", "ann.bed",
                   MethodList(<< "mw", "T_TEST" >>), 2, "Whitelist")

\* C16: a started run has launched exactly nthreads processes, one
\* Dispatcher, one Writer and nthreads-2 >= 1 Workers; the Workers that run
\* are as many, and as many are the pills the Dispatcher has dealt when it
\* ends and the pills the Writer has taken when it leaves its drain loop.
C16_ProcessCount ==
    Started =>
        /\ Len(ps_list) = args.nthreads
        /\ Launched("__list_refid") = 1
        /\ Launched("__write_output") = 1
        /\ Launched("__process_references") = args.nthreads - 2
        /\ Launched("__process_references") >= 1
        /\ Launched("__process_references") = Cardinality(Workers)
        /\ dispPc \in {"report", "done"} =>
              dispK = Launched("__process_references")
        /\ wrPc \in {"index", "signal"} =>
              wrPills = Launched("__process_references")

\* C16 witness: the Dispatcher has ended and the Writer has left its drain
\* loop in a run of NThreads processes.
C16_Witness ==
    /\ Len(ps_list) = NThreads
    /\ dispPc = "done"
    /\ wrPc = "signal"

\* C17: every Worker that hit an exception and has ended has put its
\* failure on error_q, and a Worker's failure is on error_q only after its
\* pills are on out_q.
C17_WorkerAlwaysReports ==
    \A w \in Workers :
        /\ (WorkerRaised(w) /\ Exited(wPc[w])) =>
              PutOnErrorQ("Worker", w, TbWorker) = 1
        /\ PutOnErrorQ("Worker", w, TbWorker) > 0 => wPills[w] >= 1

\* C18: a Writer that raised has put a failure on error_q.
C18_WriterAlwaysReports ==
    WriterRaised => PutOnErrorQ("Writer", 0, TbWriter) = 1

\* C19: the Writer puts None on error_q at most once, only when it has
\* taken a pill for every Worker and has written the index and the
\* metadata, and never in a run in which it puts a failure.
C19_SuccessMarkerOnce ==
    /\ PutOnErrorQ("Writer", 0, ErrNone) <= 1
    /\ \A i \in DOMAIN errLog : errLog[i].msg = ErrNone => errLog[i].proc = "Writer"
    /\ PutOnErrorQ("Writer", 0, ErrNone) = 1 =>
          /\ wrPills = Cardinality(Workers)
          /\ db.has_index
          /\ db.metadata
          /\ db.index = ref_id_list
          /\ wrPc = "done"
          /\ PutOnErrorQ("Writer", 0, TbWriter) = 0

\* C19 witness: the Writer has signalled success with every reference in
\* the index.
C19_Witness ==
    /\ PutOnErrorQ("Writer", 0, ErrNone) = 1
    /\ Len(db.index) = NRefs

\* C20: when the whitelist iteration raises, the Dispatcher's failure is
\* on error_q only after nthreads pills are on in_q, and from the raise on
\* no work item is put any more.
C20_DispatcherRaiseOrder ==
    /\ [](DispatcherReported =>
            /\ dispK = Cardinality(Workers)
            /\ PutOnErrorQ("Dispatcher", 0, TbDispatcher) = 1)
    /\ [][ (dispPc \in {"except", "report"} \/ DispatcherReported) =>
              /\ dispI' = dispI
              /\ dispPc' \notin {"iter", "put"}
              /\ \A i \in DOMAIN in_q' : i > Len(in_q) => in_q'[i] = None ]_vars

\* C20 witness: the iteration raised after a work item was put; the
\* Dispatcher has put its pills, reported and ended.
C20_Witness ==
    /\ DispatcherReported
    /\ dispPc = "done"
    /\ dispI >= 1
    /\ dispK = Cardinality(Workers)

\* ------------------------------------------------ the Supervisor's outcome

\* The Supervisor has read a message from error_q (lines 216-218).
SupHasRead == supPc \in {"join", "returned"}

\* The first message put on error_q, which is the first one error_q.get
\* returns.
FirstMessage == errLog[1].msg

\* C21: the first message the Supervisor reads from error_q fixes its
\* outcome: None gives success and nothing raised, any other payload gives
\* one NanocomporeError carrying that payload; whatever is put on error_q
\* later changes neither the outcome nor what was raised.
C21_FirstMessageDecides ==
    /\ [](IF SupHasRead
          THEN IF FirstMessage = ErrNone
               THEN supOutcome = "success" /\ supRaised = << >>
               ELSE supOutcome = "failure" /\ supRaised = << FirstMessage >>
          ELSE supOutcome = "none" /\ supRaised = << >>)
    /\ [][ SupHasRead =>
              /\ supOutcome' = supOutcome
              /\ supRaised' = supRaised
              /\ error_q' \in {error_q} \cup {Append(error_q, msg) :
                                   msg \in {ErrNone, TbDispatcher, TbWorker, TbWriter}} ]_vars

\* C21 witness: the Supervisor has raised a Worker's failure and returned
\* in a run in which the Writer put None on error_q afterwards.
C21_Witness ==
    /\ Returned
    /\ supRaised = << TbWorker >>
    /\ \E i \in DOMAIN errLog : i > 1 /\ errLog[i].msg = ErrNone

\* ------------------------------------------------ a Worker's file handles

\* The handles of Worker w: one per (condition, sample) file.
HandlesOf(w) == DOMAIN wHandles[w]

\* Worker w is in its task loop: it waits for a work item, holds a table to
\* put, or has taken its pill.
InTaskLoop(w) == wPc[w] \in {"get", "put", "pill"}

\* C22: a Worker has every handle open while it is in its task loop; a
\* handle is opened only at startup and once closed it stays closed; and
\* when the Worker has stopped, on its pill or on an exception (an
\* exception of open() included), no handle it opened is left open.
C22_HandlesClosedOnce ==
    /\ [](\A w \in Workers :
            /\ InTaskLoop(w) => \A i \in HandlesOf(w) : wHandles[w][i] = "open"
            /\ Exited(wPc[w]) => \A i \in HandlesOf(w) : wHandles[w][i] # "open")
    /\ [][ \A w \in Workers : \A i \in HandlesOf(w) :
              /\ (wHandles[w][i] # "open" /\ wHandles'[w][i] = "open")
                    => (wPc[w] = "start" /\ wHandles[w][i] = "none")
              /\ wHandles[w][i] = "closed" => wHandles'[w][i] = "closed" ]_vars

\* --------------------------------------------- later claims of the folding

\* The kmer-quality counters of sample cs at position pos.
CountersAt(pos, cs) == StatsAt(pos, cs).kmers_stats

\* C23: folding a row of a read whose column line lacks NNNNN_dwell_time
\* or mismatch_dwell_time changes no counter (valid, NNNNN, mismatching,
\* missing) of any position and sample, and appends the row's median and
\* dwell time and adds one to coverage at the row's position for the
\* read's sample, and nowhere else.
C23_NoStatsColumnsNoCounters ==
    [][ (RowFolded /\ lacks_stats_col) =>
           \A pos \in Positions, cs \in Samples :
               LET new == ref_pos_list'[pos + 1].data[cs] IN
               /\ new.kmers_stats = CountersAt(pos, cs)
               /\ IF pos = kmer'.ref_pos /\ cs = fSample
                  THEN /\ new.intensity = Append(StatsAt(pos, cs).intensity, kmer'.median)
                       /\ new.dwell = Append(StatsAt(pos, cs).dwell, kmer'.dwell_time)
                       /\ new.coverage = StatsAt(pos, cs).coverage + 1
                  ELSE /\ new.intensity = StatsAt(pos, cs).intensity
                       /\ new.dwell = StatsAt(pos, cs).dwell
                       /\ new.coverage = StatsAt(pos, cs).coverage ]_vars

\* C23 witness: a read without the two columns has folded a row into a
\* position where a read with them had left counters: coverage is 2, the
\* counters are those of the first row.
C23_Witness ==
    /\ fPc = "rows"
    /\ lacks_stats_col
    /\ \E pos \in Positions, cs \in Samples :
          /\ Len(RowsAt(pos, cs)) = 2
          /\ RowsAt(pos, cs)[1].stats
          /\ ~RowsAt(pos, cs)[2].stats
          /\ RowsAt(pos, cs)[2].kmer = kmer
          /\ n_valid(kmer) > 0
          /\ StatsAt(pos, cs).coverage = 2
          /\ CountersAt(pos, cs).valid = n_valid(RowsAt(pos, cs)[1].kmer)
          /\ CountersAt(pos, cs).valid > 0

\* The stored k-mer of position pos.
StoredKmer(pos) == ref_pos_list[pos + 1].ref_kmer

\* C24: folding a row changes the stored k-mer of no position but its own,
\* and of its own only when its ref_kmer differs from the reference
\* sequence's k-mer there: a row that agrees with the reference sequence
\* leaves the stored k-mer as it is, whatever was folded before.
C24_MatchingRowKeepsKmer ==
    [][ RowFolded =>
           \A pos \in Positions :
               ref_pos_list'[pos + 1].ref_kmer # StoredKmer(pos)
                   => (pos = kmer'.ref_pos /\ ~Matches(kmer')) ]_vars

\* C25: at every position and for every sample of the table, intensity and
\* dwell hold as many values as coverage counts, after every row folded;
\* and no step on the table makes a coverage smaller.
C25_LengthsAgree ==
    /\ [](\A pos \in Positions, cs \in Samples :
            /\ Len(StatsAt(pos, cs).intensity) = StatsAt(pos, cs).coverage
            /\ Len(StatsAt(pos, cs).dwell) = StatsAt(pos, cs).coverage)
    /\ [][ \A pos \in Positions, cs \in Samples :
              ref_pos_list'[pos + 1].data[cs].coverage >= StatsAt(pos, cs).coverage ]_vars

\* C25 witness: MaxRows rows of two reads were folded into one position of
\* one sample, and another position of the table is still empty.
C25_Witness ==
    /\ fPc = "reads"
    /\ nReads = MaxReads
    /\ \E pos \in Positions, cs \in Samples :
          /\ StatsAt(pos, cs).coverage = MaxRows
          /\ Len(StatsAt(pos, cs).intensity) = MaxRows
          /\ Cardinality(ReadsNaming(pos, cs)) = MaxReads
    /\ \E pos \in Positions : \A cs \in Samples : StatsAt(pos, cs).coverage = 0

\* ------------------------------------------------- references never stored

\* A work item one of whose reads fails the header or the column check.
FailsValidation(item) == item.kind \in {"bad_header", "no_column"}

\* Worker w stopped its task loop on an exception while it held a work
\* item.
StoppedOn(w, r) == wPc[w] \in {"except", "done", "died"} /\ wCur[w] = r /\ r # 0

\* A step Worker w takes.
StepOf(w) == wPc'[w] # wPc[w] \/ wPills'[w] # wPills[w]

\* C26: a Worker that takes a work item one of whose reads fails the
\* header or the column check goes to its except clause without putting
\* anything on out_q; from there it only puts pills; and the reference it
\* stopped on is never on out_q, in the Writer's list or in the store.
C26_BadReferenceNeverStored ==
    /\ [][ \A w \in Workers :
              (wPc[w] = "get" /\ wPc'[w] # "get" /\ FailsValidation(Head(in_q))) =>
                  /\ \E r \in 1..NRefs : r = Head(in_q).ref_id /\ StoppedOn(w, r)'
                  /\ out_q' = out_q ]_vars
    /\ [][ \A w \in Workers : \A r \in 1..NRefs :
              StoppedOn(w, r) =>
                  /\ StoppedOn(w, r)'
                  /\ StepOf(w) =>
                        \A i \in DOMAIN out_q' : i > Len(out_q) => out_q'[i] = None ]_vars
    /\ [](\A w \in Workers : \A r \in 1..NRefs :
            StoppedOn(w, r) =>
                /\ ~Processed(r)
                /\ r \notin db.tables
                /\ \A i \in DOMAIN db.index : db.index[i] # r)

\* C26 witness: the run has ended with the first reference in the store
\* and in the index, and the second, whose read failed the check, in
\* neither.
C26_Witness ==
    /\ Returned
    /\ \E w \in Workers : MetBadRead(w) /\ StoppedOn(w, 2)
    /\ db.tables = {1}
    /\ db.index = << 1 >>

\* ---------------------------------------------------- the index of a run

\* The Writer has written the index of this run (line 388).
IndexWritten == wrPc \in {"signal", "done"} /\ db.has_index

\* The elements of a sequence, and whether none occurs twice.
Elements(seq) == {seq[i] : i \in DOMAIN seq}
NoRepeat(seq) == \A i, j \in DOMAIN seq : seq[i] = seq[j] => i = j

GivenDict == LoadDict(args.eventalign_fn_dict)
ReturnedDict == sampcomp.eventalign_fn_dict

\* No two samples of the mapping, of the same or of different conditions,
\* have the same label.
LabelsDistinct(d) ==
    \A e1, e2 \in Entries(d) : LabAt(d, e1) = LabAt(d, e2) => e1 = e2

\* C28: the mapping __check_eventalign_fn_dict returns for an accepted
\* two-condition mapping has pairwise distinct sample labels; it is the
\* given mapping when no label repeats there, and otherwise the given
\* mapping with every label turned into <condition>_<label>, files kept.
C28_LabelsDistinctAfterCheck ==
    sampcomp.class = "SampComp" =>
        /\ Len(GivenDict) = 2
        /\ LabelsDistinct(ReturnedDict)
        /\ LabelsDistinct(GivenDict) => ReturnedDict = GivenDict
        /\ ~LabelsDistinct(GivenDict) =>
              /\ Entries(ReturnedDict) = Entries(GivenDict)
              /\ \A c \in DOMAIN GivenDict :
                    ReturnedDict[c].cond_lab = GivenDict[c].cond_lab
              /\ \A e \in Entries(GivenDict) :
                    /\ FnAt(ReturnedDict, e) = FnAt(GivenDict, e)
                    /\ LabAt(ReturnedDict, e)
                          = GivenDict[e[1]].cond_lab \o "_" \o LabAt(GivenDict, e)

\* ------------------------------------------------- the index of SimReads

\* str.split(sep), as line 284 of SampComp.py splits a read's chunk.
RECURSIVE split(_, _)
split(str, sep) ==
    LET at == {i \in 1..Len(str) : SubSeq(str, i, i) = sep} IN
    IF at = {}
    THEN << str >>
    ELSE LET i == CHOOSE i \in at : \A j \in at : i <= j IN
         << SubSeq(str, 1, i - 1) >> \o split(SubSeq(str, i + 1, Len(str)), sep)

\* Lines 283-284 of SampComp.py: fp.seek(byte_offset), fp.read(byte_len):
\* the part of the data file an index entry points to.
Chunk(entry) ==
    SubSeq(data_fp, entry.byte_offset + 1, entry.byte_offset + entry.byte_len)

\* Where the record of an index entry ends: after its final newline.
EndOf(entry) == entry.byte_offset + entry.byte_len + 1

\* The lines of a chunk are those of one read of its reference: a header
\* line, the column line, and a row for each of the positions
\* 0..len(ref_seq)-5, in order, with the k-mer of the position.
OneRead(entry) ==
    LET lines == split(Chunk(entry), "\n")
        seq == FastaSeq(entry.ref_id)
    IN /\ Len(lines) = 2 + (Len(seq) - 4)
       /\ lines[1] = "#" \o entry.read_id \o "\t" \o entry.ref_id
       /\ lines[2] = "ref_pos\tref_kmer\tdwell_time\tmedian"
       /\ \A pos \in 0..(Len(seq) - 5) :
             LET fields == split(lines[pos + 3], "\t") IN
             /\ Len(fields) = 4
             /\ fields[1] = ToString(pos)
             /\ fields[2] = SubSeq(seq, pos + 1, pos + 5)

\* C29: the records of the data file follow each other from offset 0;
\* every index entry points to where its record starts, its byte_len
\* stops short of the record's final newline, so that the next record
\* starts right after it and the last one ends the file; the chunk of an
\* entry is exactly one read; and a reference that is not in the FASTA
\* file changes neither file nor byte_offset.
C29_IndexTilesDataFile ==
    /\ [](/\ byte_offset = Len(data_fp)
          /\ \A k \in DOMAIN idx_fp :
                /\ idx_fp[k].byte_offset = IF k = 1 THEN 0 ELSE EndOf(idx_fp[k - 1])
                /\ idx_fp[k].byte_len >= 0
                /\ EndOf(idx_fp[k]) <= Len(data_fp)
                /\ SubSeq(data_fp, EndOf(idx_fp[k]), EndOf(idx_fp[k])) = "\n"
                /\ idx_fp[k].ref_id \in FastaIds
                /\ OneRead(idx_fp[k])
          /\ Len(data_fp) = IF idx_fp = << >> THEN 0 ELSE EndOf(idx_fp[Len(idx_fp)]))
    /\ [][ (simPc = "ref" /\ ref_num < Len(ref_list)
              /\ ref_list[ref_num + 1] \notin FastaIds) =>
                 /\ data_fp' = data_fp
                 /\ idx_fp' = idx_fp
                 /\ byte_offset' = byte_offset ]_vars

\* C29 witness: SimReads has ended on a ref_list that names a reference
\* missing from the FASTA file before the longest one; the index holds
\* MaxReads entries, the last of which does not start at 0.
C29_Witness ==
    /\ simPc = "done"
    /\ Len(ref_list) = NRefs
    /\ ref_list[NRefs - 1] = MissingId
    /\ ref_list[NRefs] = "r2"
    /\ Len(idx_fp) = MaxReads
    /\ idx_fp[MaxReads].byte_offset > 0
    /\ EndOf(idx_fp[MaxReads]) = Len(data_fp)

\* ---------------------------------------- get_valid_distr_data terminates

\* The call has ended: it returned a sample or raised NanocomporeError.
DrawEnded == gvd.pc \in {"returned", "raised"}

\* The safe bounds are in force.
SafeBounds == gvd.min = 0 /\ gvd.max = MaxFloat

\* C30: a call of get_valid_distr_data draws at most 2*max_tries+1
\* samples and ends in one of two ways only: it returns a sample whose
\* minimum and maximum are strictly inside the bounds then in force, or it
\* raises NanocomporeError, after 2*max_tries+1 draws; the safe bounds are
\* in force once more than max_tries draws have failed, and stay.
C30_DrawTerminates ==
    /\ [](/\ gvd.draws <= 2 * gvd.max_tries + 1
          /\ gvd.pc \in {"idle", "call", "loop", "returned", "raised"}
          /\ gvd.pc = "loop" => ENABLED DrawNext
          /\ gvd.pc = "returned" =>
                /\ Len(gvd.data) = gvd.size
                /\ \A k \in DOMAIN gvd.data :
                      gvd.min < gvd.data[k] /\ gvd.data[k] < gvd.max
          /\ gvd.pc = "raised" => gvd.draws = 2 * gvd.max_tries + 1
          /\ gvd.i > gvd.max_tries => SafeBounds)
    /\ [][ (gvd.pc = "loop" /\ gvd.i > gvd.max_tries) => SafeBounds' ]_vars


=============================================================================
